---- MODULE Spec2Model ----
(***************************************************************************)
(* Model of trace.js: long stack traces across asynchronous boundaries.   *)
(* The program keeps, per async id, the call sites captured when the      *)
(* resource was initialised followed by the call sites of its trigger,    *)
(* and appends them to every stack trace built inside that resource.      *)
(*                                                                         *)
(* Program state (src/trace.js:38-41 and Error.stackTraceLimit):          *)
(*   traces               the Map asyncId -> array of call sites          *)
(*   executionScopeInits  the Set of async ids initialised in this scope  *)
(*   executionScopeDepth  the before/after nesting counter                *)
(*   stackTraceLimit      Error.stackTraceLimit                           *)
(* The other variables record the event that was delivered last and the   *)
(* history of the lifecycle source; the handlers never read them.         *)
(***************************************************************************)
EXTENDS Integers, Sequences, FiniteSets

VARIABLES traces, executionScopeInits, executionScopeDepth, stackTraceLimit,
          threw, ev, live, sinceOutermost, scheduled, rootInit, scenario

prog == <<traces, executionScopeInits, executionScopeDepth, stackTraceLimit>>
hist == <<threw, ev, live, sinceOutermost, scheduled, rootInit, scenario>>
vars == <<traces, executionScopeInits, executionScopeDepth, stackTraceLimit,
          threw, ev, live, sinceOutermost, scheduled, rootInit, scenario>>

\* ------------------------------------------------------------------ bounds
MaxId == 2            \* async ids are 1..MaxId
MaxCapLen == 1        \* every stack of at most this many call sites is captured
MaxLimit == 3         \* largest Error.stackTraceLimit
MaxDepth == 2         \* deepest before() nesting explored
MaxUnmatched == 1     \* after() calls explored below depth 0

\* --------------------------------------------------------------- constants
ROOT == 0             \* triggerAsyncId of a resource with no trigger
Null == 0             \* the null a call site reports for an unknown field

Ids == 1..MaxId
Triggers == {ROOT} \cup Ids
Limits == {1, MaxLimit}

\* A call site as equalCallSite sees it: file name, line and column number.
CallSite(f, l, c) == [file |-> f, line |-> l, column |-> c]
f1 == CallSite(1, 1, 1)
f2 == CallSite(1, 2, 1)
\* A call site whose file name is unknown (null), as native frames report.
fNative == CallSite(Null, 2, 1)
CallSites == {f1, f2}

RECURSIVE SeqsUpTo(_, _)
SeqsUpTo(S, n) ==
  IF n = 0 THEN {<<>>}
  ELSE LET shorter == SeqsUpTo(S, n - 1)
       IN  shorter \cup {Append(s, x) : s \in {t \in shorter : Len(t) = n - 1}, x \in S}

\* Deeper stacks: a callee of f1, a callee of f2, f2 recursing below f1, and
\* f2 called from native code.
DeepStacks == {<<f2, f1>>, <<f1, f2>>, <<f2, f2, f1>>, <<f2, fNative>>}

\* What chain.callSite(...).map(cloneCallSite) can return (trace.js:51-58).
Captures == SeqsUpTo(CallSites, MaxCapLen) \cup DeepStacks

Min(a, b) == IF a < b THEN a ELSE b
Last(s) == s[Len(s)]
Front(s) == SubSeq(s, 1, Len(s) - 1)
\* The innermost-first prefix of at most n frames.
Take(s, n) == SubSeq(s, 1, Min(n, Len(s)))

\* ------------------------------------------------------------ the Map API
MapHas(m, k) == k \in DOMAIN m
MapSet(m, k, v) == [j \in DOMAIN m \cup {k} |-> IF j = k THEN v ELSE m[j]]
MapDelete(m, k) == [j \in DOMAIN m \ {k} |-> m[j]]
EmptyMap == [j \in {} |-> <<>>]

\* --------------------------------------------------------- pure functions
\* equalCallSite(a, b), trace.js:61-73.
equalCallSite(a, b) ==
  IF a.file = Null \/ a.line = Null \/ a.column = Null
  THEN FALSE
  ELSE a.file = b.file /\ a.line = b.line /\ a.column = b.column

\* Mutation: the walk compares the parent's frame with the first captured
\* frame instead of the last one.
RECURSIVE DedupWalkFirst(_, _, _)
DedupWalkFirst(parentTrace, i, trace) ==
  IF i = 0 \/ ~(Len(trace) > 1)
  THEN trace
  ELSE IF equalCallSite(parentTrace[i], trace[1])
       THEN DedupWalkFirst(parentTrace, i - 1, Front(trace))
       ELSE DedupWalkFirst(parentTrace, i - 1, trace)

\* Mutation: the walk ends at the first parent frame that differs from the
\* last captured frame (a break in an else branch).
RECURSIVE DedupWalkStops(_, _, _)
DedupWalkStops(parentTrace, i, trace) ==
  IF i = 0 \/ ~(Len(trace) > 1)
  THEN trace
  ELSE IF equalCallSite(parentTrace[i], Last(trace))
       THEN DedupWalkStops(parentTrace, i - 1, Front(trace))
       ELSE trace

\* The loop of trace.js:92-97. i is the value of the loop variable before the
\* test `i-- && trace.length > 1`; parentTrace[i] here is parentTrace[i] of
\* the source after the decrement (arrays start at 1 here, at 0 there).
RECURSIVE DedupWalk(_, _, _)
DedupWalk(parentTrace, i, trace) ==
  IF i = 0 \/ ~(Len(trace) > 1)
  THEN trace
  ELSE IF equalCallSite(parentTrace[i], Last(trace))
       THEN DedupWalk(parentTrace, i - 1, Front(trace))
       ELSE DedupWalk(parentTrace, i - 1, trace)

\* trace.js:89-98, for a trigger that has an entry in traces.
Deduped(trace, triggerAsyncId) ==
  IF triggerAsyncId \in executionScopeInits
  THEN DedupWalk(traces[triggerAsyncId], Len(traces[triggerAsyncId]), trace)
  ELSE trace

\* Mutation: the trigger's call sites are put in front (unshift for push).
WithTriggerInFront(trace, triggerAsyncId) ==
  IF triggerAsyncId # ROOT
  THEN (IF MapHas(traces, triggerAsyncId) THEN traces[triggerAsyncId] ELSE <<>>) \o trace
  ELSE trace

\* trace.js:101-103. push.apply(trace, undefined) pushes nothing.
WithTrigger(trace, triggerAsyncId) ==
  IF triggerAsyncId # ROOT
  THEN trace \o (IF MapHas(traces, triggerAsyncId) THEN traces[triggerAsyncId] ELSE <<>>)
  ELSE trace

\* Mutation: no cut at all.
SpliceNothing(trace, limit) == trace

\* Mutation: the cut keeps the last frames (slice(-limit)) instead of the first.
SpliceKeepsTail(trace, limit) ==
  SubSeq(trace, Len(trace) - Min(limit, Len(trace)) + 1, Len(trace))

\* trace.splice(Error.stackTraceLimit), trace.js:107.
Splice(trace, limit) == SubSeq(trace, 1, Min(limit, Len(trace)))

\* parentTrace.length of an undefined parentTrace: the TypeError of
\* trace.js:92, raised before anything is stored.
InitThrows(triggerAsyncId) ==
  /\ triggerAsyncId \in executionScopeInits
  /\ ~MapHas(traces, triggerAsyncId)

\* The array asyncInit stores (trace.js:76-107).
Stitched(callSites, triggerAsyncId) ==
  Splice(WithTrigger(Deduped(callSites, triggerAsyncId), triggerAsyncId), stackTraceLimit)

\* The extend hook's lookup, trace.js:146-148: the frames map m has for id;
\* push.apply(frames, undefined) appends nothing.
ComposeIn(m, id) == IF MapHas(m, id) THEN m[id] ELSE <<>>
compose(id) == ComposeIn(traces, id)

\* ---------------------------------------------------------------- handlers
\* Mutation: the new call sites are stitched into the trigger's own array,
\* which is then stored under both ids.
asyncInitSharedArray(asyncId, triggerAsyncId, callSites) ==
  IF InitThrows(triggerAsyncId)
  THEN /\ threw' = TRUE
       /\ UNCHANGED prog
  ELSE /\ threw' = FALSE
       /\ traces' =
            LET trace == Stitched(callSites, triggerAsyncId)
                shared == IF MapHas(traces, triggerAsyncId)
                          THEN MapSet(traces, triggerAsyncId, trace)
                          ELSE traces
            IN MapSet(shared, asyncId, trace)
       /\ executionScopeInits' = executionScopeInits \cup {asyncId}
       /\ UNCHANGED <<executionScopeDepth, stackTraceLimit>>

\* asyncInit, trace.js:75-115. callSites is the result of getCallSites(2).
asyncInit(asyncId, triggerAsyncId, callSites) ==
  IF InitThrows(triggerAsyncId)
  THEN /\ threw' = TRUE
       /\ UNCHANGED prog
  ELSE /\ threw' = FALSE
       /\ traces' = MapSet(traces, asyncId, Stitched(callSites, triggerAsyncId))
       /\ executionScopeInits' = executionScopeInits \cup {asyncId}
       /\ UNCHANGED <<executionScopeDepth, stackTraceLimit>>

\* Mutation: the set is never cleared.
asyncBeforeKeepsInits ==
  /\ executionScopeDepth' = executionScopeDepth + 1
  /\ threw' = FALSE
  /\ UNCHANGED <<traces, executionScopeInits, stackTraceLimit>>

\* asyncBefore, trace.js:117-122.
asyncBefore ==
  /\ executionScopeInits' = IF executionScopeDepth = 0 THEN {} ELSE executionScopeInits
  /\ executionScopeDepth' = executionScopeDepth + 1
  /\ threw' = FALSE
  /\ UNCHANGED <<traces, stackTraceLimit>>

\* asyncAfter, trace.js:124-126.
asyncAfter ==
  /\ executionScopeDepth' = executionScopeDepth - 1
  /\ threw' = FALSE
  /\ UNCHANGED <<traces, executionScopeInits, stackTraceLimit>>

\* Mutation: the id is deleted from the set of inits, not from the map.
asyncDestroyWrongCollection(asyncId) ==
  /\ executionScopeInits' = executionScopeInits \ {asyncId}
  /\ threw' = FALSE
  /\ UNCHANGED <<traces, executionScopeDepth, stackTraceLimit>>

\* Mutation: the id is deleted from the map and from the set of inits.
asyncDestroyAlsoForgets(asyncId) ==
  /\ traces' = MapDelete(traces, asyncId)
  /\ executionScopeInits' = executionScopeInits \ {asyncId}
  /\ threw' = FALSE
  /\ UNCHANGED <<executionScopeDepth, stackTraceLimit>>

\* asyncDestroy, trace.js:128-130.
asyncDestroy(asyncId) ==
  /\ traces' = MapDelete(traces, asyncId)
  /\ threw' = FALSE
  /\ UNCHANGED <<executionScopeInits, executionScopeDepth, stackTraceLimit>>

\* ------------------------------------------------- the lifecycle source
Event(op, id, trigger, trace) == [op |-> op, id |-> id, trigger |-> trigger, trace |-> trace]

\* The concrete scenario of the specification, event by event.
ScenarioEvents ==
  << Event("init", 1, ROOT, <<f1>>),
     Event("before", 0, ROOT, <<>>),
     Event("init", 2, 1, <<f2, f1>>),
     Event("destroy", 1, ROOT, <<>>) >>

\* scenario counts the events of the scenario delivered so far, as long as
\* nothing else was delivered; Off once the history has left the scenario.
Off == Len(ScenarioEvents) + 1

Follow(e) ==
  /\ ev' = e
  /\ scenario' = IF scenario < Len(ScenarioEvents) /\ e = ScenarioEvents[scenario + 1]
                 THEN scenario + 1
                 ELSE Off

\* scheduled(id, type, triggerId): the init hook. Async ids come from a
\* counter: each is delivered once, in increasing order.
Scheduled(id, trigger, callSites) ==
  /\ id = Cardinality(scheduled) + 1
  /\ asyncInit(id, trigger, callSites)
  /\ Follow(Event("init", id, trigger, callSites))
  /\ live' = live \cup {id}
  /\ sinceOutermost' = sinceOutermost \cup {id}
  /\ scheduled' = scheduled \cup {id}
  /\ rootInit' = IF trigger = ROOT THEN rootInit \cup {id} ELSE rootInit

\* dispatchEnter(): the before hook.
DispatchEnter ==
  /\ executionScopeDepth < MaxDepth
  /\ asyncBefore
  /\ Follow(Event("before", 0, ROOT, <<>>))
  /\ sinceOutermost' = IF executionScopeDepth = 0 THEN {} ELSE sinceOutermost
  /\ UNCHANGED <<live, scheduled, rootInit>>

\* dispatchExit(): the after hook, also when no dispatchEnter is open.
DispatchExit ==
  /\ executionScopeDepth > -MaxUnmatched
  /\ asyncAfter
  /\ Follow(Event("after", 0, ROOT, <<>>))
  /\ UNCHANGED <<live, sinceOutermost, scheduled, rootInit>>

\* destroyed(id): the destroy hook, for any id at any time.
Destroyed(id) ==
  /\ asyncDestroy(id)
  /\ Follow(Event("destroy", id, ROOT, <<>>))
  /\ live' = live \ {id}
  /\ UNCHANGED <<sinceOutermost, scheduled, rootInit>>

Init ==
  /\ traces = EmptyMap
  /\ executionScopeInits = {}
  /\ executionScopeDepth = 0
  /\ stackTraceLimit \in Limits
  /\ threw = FALSE
  /\ ev = Event("none", 0, ROOT, <<>>)
  /\ live = {}
  /\ sinceOutermost = {}
  /\ scheduled = {}
  /\ rootInit = {}
  /\ scenario = 0

Next ==
  \/ \E id \in Ids, trigger \in Triggers, callSites \in Captures :
       Scheduled(id, trigger, callSites)
  \/ DispatchEnter
  \/ DispatchExit
  \/ \E id \in Ids : Destroyed(id)

Spec == Init /\ [][Next]_vars

\* ------------------------------------------- the extend hook as a step
\* The frames an error has gathered synchronously when the extend hook runs.
SyncFrames == {<<>>, <<f1>>}

\* Mutation: the frames are pushed onto the stored array (the arguments of
\* push.apply swapped), which is then returned.
chainExtendIntoStore(id, frames) ==
  /\ ev' = [op |-> "extend", id |-> id, trigger |-> ROOT,
            trace |-> compose(id) \o frames, frames |-> frames]
  /\ traces' = IF MapHas(traces, id) THEN MapSet(traces, id, compose(id) \o frames)
               ELSE traces
  /\ threw' = FALSE
  /\ UNCHANGED <<executionScopeInits, executionScopeDepth, stackTraceLimit>>

\* The callback of chain.extend.attach, trace.js:143-151, run for an error
\* made while executionAsyncId() is id; ev.trace is the array it returns.
chainExtend(id, frames) ==
  /\ ev' = [op |-> "extend", id |-> id, trigger |-> ROOT,
            trace |-> frames \o compose(id), frames |-> frames]
  /\ threw' = FALSE
  /\ UNCHANGED prog

\* An error is created and its stack trace is built: no lifecycle event.
ErrorCreated(id, frames) ==
  /\ chainExtend(id, frames)
  /\ UNCHANGED <<live, sinceOutermost, scheduled, rootInit, scenario>>

\* The stacks captured in the runs that also create errors.
ShortStacks == {<<>>, <<f1>>, <<f2, f1>>}

\* The lifecycle with the stacks of ShortStacks, and errors created at any
\* time in any execution context.
NextCompose ==
  \/ \E id \in Ids, trigger \in Triggers, callSites \in ShortStacks :
       Scheduled(id, trigger, callSites)
  \/ DispatchEnter
  \/ DispatchExit
  \/ \E id \in Ids : Destroyed(id)
  \/ \E id \in Triggers, frames \in SyncFrames : ErrorCreated(id, frames)

SpecCompose == Init /\ [][NextCompose]_vars

\* ------------------------------------------- equalCallSite on its own
MaxField == 2
\* The undefined getFileName reports for code without a script name (eval,
\* new Function); === tells it from null and from every value.
Undefined == -1
\* What getLineNumber and getColumnNumber report: a value or null.
FieldValues == {Null} \cup (1..MaxField)
\* What getFileName reports: a value, null or undefined.
FileNames == {Undefined} \cup FieldValues
AnyCallSite == [file : FileNames, line : FieldValues, column : FieldValues]

\* The module as loaded, and two call sites about to be compared.
InitEqual ==
  /\ traces = EmptyMap
  /\ executionScopeInits = {}
  /\ executionScopeDepth = 0
  /\ stackTraceLimit \in Limits
  /\ threw = FALSE
  /\ \E a \in AnyCallSite, b \in AnyCallSite : ev = Event("compare", 0, ROOT, <<a, b>>)
  /\ live = {}
  /\ sinceOutermost = {}
  /\ scheduled = {}
  /\ rootInit = {}
  /\ scenario = 0

\* equalCallSite applied to a and b, and to b and a.
CompareCallSites(a, b) ==
  /\ ev = Event("compare", 0, ROOT, <<a, b>>)
  /\ ev' = [op |-> "equal", id |-> 0, trigger |-> ROOT, trace |-> <<a, b>>,
            result |-> equalCallSite(a, b), swapped |-> equalCallSite(b, a)]
  /\ UNCHANGED <<prog, threw, live, sinceOutermost, scheduled, rootInit, scenario>>

NextEqual == ev.op = "compare" /\ CompareCallSites(ev.trace[1], ev.trace[2])

SpecEqual == InitEqual /\ [][NextEqual]_vars

\* ------------------------------------------- getCallSites step by step
\* The argument of getCallSites in asyncInit.
Skip == 2

\* No init hook is between the start of its getCallSites and its end.
Idle == ev.op \notin {"capture", "captured"}

\* trace.js:48-50: the init hook of id has entered getCallSites(2), which has
\* saved Error.stackTraceLimit in its local `limit` and raised the setting;
\* chain.callSite is running.
getCallSitesEnter(id, trigger) ==
  /\ Idle
  /\ id = Cardinality(scheduled) + 1
  /\ stackTraceLimit' = stackTraceLimit + Skip
  /\ ev' = [op |-> "capture", id |-> id, trigger |-> trigger, trace |-> <<>>,
            limit |-> stackTraceLimit]
  /\ UNCHANGED <<traces, executionScopeInits, executionScopeDepth, threw>>
  /\ UNCHANGED <<live, sinceOutermost, scheduled, rootInit, scenario>>

\* Mutation: the setting is not put back.
getCallSitesKeepsRaised(callSites) ==
  /\ ev.op = "capture"
  /\ ev' = [ev EXCEPT !.op = "captured", !.trace = callSites]
  /\ UNCHANGED <<prog, threw>>
  /\ UNCHANGED <<live, sinceOutermost, scheduled, rootInit, scenario>>

\* trace.js:51-58: chain.callSite has returned callSites, the setting is put
\* back to `limit` and the clones are returned to asyncInit.
getCallSitesReturn(callSites) ==
  /\ ev.op = "capture"
  /\ stackTraceLimit' = ev.limit
  /\ ev' = [ev EXCEPT !.op = "captured", !.trace = callSites]
  /\ UNCHANGED <<traces, executionScopeInits, executionScopeDepth, threw>>
  /\ UNCHANGED <<live, sinceOutermost, scheduled, rootInit, scenario>>

\* trace.js:78-114: the rest of asyncInit, with the call sites it was given.
AfterGetCallSites ==
  /\ ev.op = "captured"
  /\ Scheduled(ev.id, ev.trigger, ev.trace)

\* The lifecycle with the init hook in three steps; the hooks run one at a
\* time, so no other hook runs inside an init hook.
NextCapture ==
  \/ \E id \in Ids, trigger \in Triggers : getCallSitesEnter(id, trigger)
  \/ \E callSites \in ShortStacks : getCallSitesReturn(callSites)
  \/ AfterGetCallSites
  \/ Idle /\ DispatchEnter
  \/ Idle /\ DispatchExit
  \/ \E id \in Ids : Idle /\ Destroyed(id)

SpecCapture == Init /\ [][NextCapture]_vars

\* ------------------------------------------------------------------ claims
\* The event just delivered, read in the state it led to.
JustInit == ev.op = "init"
JustDestroyed == ev.op = "destroy"

\* C1: a scheduled(id, triggerId) event whose trigger has no entry in the
\* store completes without error, treats the trigger's sequence as empty
\* (what is stored is the capture cut to the depth limit) and leaves
\* store[id] set.
C1_TriggerWithoutSequence ==
  [][ (ev'.op = "init" /\ ~MapHas(traces, ev'.trigger))
      => /\ ~threw'
         /\ MapHas(traces', ev'.id)
         /\ traces'[ev'.id] = Take(ev'.trace, stackTraceLimit) ]_vars

\* C2: every sequence in the store has at most stackTraceLimit frames.
C2_DepthBound ==
  \A id \in DOMAIN traces : Len(traces[id]) <= stackTraceLimit

\* C2 happens: a capture and its trigger's sequence that were together longer
\* than the limit have been stored, cut to the limit.
C2_Truncated ==
  /\ JustInit /\ ~threw
  /\ ev.trigger # ev.id /\ MapHas(traces, ev.trigger)
  /\ Len(ev.trace) >= 1
  /\ 1 + Len(traces[ev.trigger]) > stackTraceLimit
  /\ Len(traces[ev.id]) = stackTraceLimit

\* The case of C3 on a step: B = ev'.id is scheduled with trigger A, A was
\* scheduled with ROOT since the last dispatchEnter at depth 0 and its
\* sequence Sa is stored, and the capture of B, of at least minLen frames,
\* ends with a frame equal to the last frame of Sa.
C3_Case(minLen) ==
  /\ ev'.op = "init"
  /\ ev'.trigger \in rootInit \cap sinceOutermost
  /\ MapHas(traces, ev'.trigger)
  /\ Len(ev'.trace) >= minLen
  /\ Len(traces[ev'.trigger]) >= 1
  /\ equalCallSite(Last(traces[ev'.trigger]), Last(ev'.trace))

\* The duplicated trailing frame of the capture is not kept: what is stored
\* for B is a proper prefix of the capture followed by Sa, cut to the limit.
C3_NoLeftover ==
  /\ MapHas(traces', ev'.id)
  /\ \E k \in 0..(Len(ev'.trace) - 1) :
       traces'[ev'.id] =
         Take(SubSeq(ev'.trace, 1, k) \o traces[ev'.trigger], stackTraceLimit)

\* C3 as stated: same-scope deduplication for a capture of any length >= 1.
C3_DedupAnyLength == [][ C3_Case(1) => C3_NoLeftover ]_vars

\* C3 amended: same-scope deduplication for a capture of length >= 2: the
\* duplicated frame appears only as part of the appended Sa.
C3_DedupFromTwoFrames == [][ C3_Case(2) => C3_NoLeftover ]_vars

\* C3 happens: B was scheduled in the scope of its ROOT-triggered trigger
\* with a capture of two or more frames ending like Sa, and the stored
\* sequence is the capture without its last frame, followed by Sa.
C3_Deduplicated ==
  /\ JustInit /\ ~threw
  /\ ev.trigger \in rootInit \cap sinceOutermost
  /\ ev.trigger # ev.id /\ MapHas(traces, ev.trigger)
  /\ Len(ev.trace) >= 2
  /\ Len(traces[ev.trigger]) >= 1
  /\ equalCallSite(Last(traces[ev.trigger]), Last(ev.trace))
  /\ traces[ev.id] = Front(ev.trace) \o traces[ev.trigger]

\* C4 as stated: scheduled(1, ROOT) capturing [f1], dispatchEnter,
\* scheduled(2, 1) capturing [f2, f1] end with store[1] = [f1] and
\* store[2] = [f2, f1] (under a depth limit that cuts nothing here).
C4_ScenarioAsStated ==
  (scenario = 3 /\ stackTraceLimit >= 3)
  => /\ compose(1) = <<f1>>
     /\ compose(2) = <<f2, f1>>

\* C4 amended: the scenario ends with store[1] = [f1] and store[2] = the
\* first stackTraceLimit frames of [f2, f1, f1].
C4_ScenarioAsCoded ==
  scenario = 3
  => /\ DOMAIN traces = {1, 2}
     /\ traces[1] = <<f1>>
     /\ traces[2] = Take(<<f2, f1, f1>>, stackTraceLimit)

\* C4 happens: the scenario ran and three frames are stored for 2.
C4_ScenarioRan ==
  /\ scenario = 3
  /\ MapHas(traces, 2) /\ traces[2] = <<f2, f1, f1>>

\* C5: B = ev'.id scheduled with a trigger A that was scheduled with ROOT
\* before the last dispatchEnter at depth 0 and is still stored gets the
\* first stackTraceLimit frames of captured(B) ++ Sa.
C5_AncestryCarryForward ==
  [][ ( /\ ev'.op = "init"
        /\ ev'.trigger \in rootInit \ sinceOutermost
        /\ MapHas(traces, ev'.trigger) )
      => /\ MapHas(traces', ev'.id)
         /\ traces'[ev'.id] =
              Take(ev'.trace \o traces[ev'.trigger], stackTraceLimit) ]_vars

\* C5 happens: the capture of B ends with the last frame of Sa, and the
\* whole capture followed by Sa is stored.
C5_CarriedForward ==
  /\ JustInit /\ ~threw
  /\ ev.trigger \in rootInit \ sinceOutermost
  /\ MapHas(traces, ev.trigger)
  /\ Len(ev.trace) >= 2 /\ Len(traces[ev.trigger]) >= 1
  /\ equalCallSite(Last(traces[ev.trigger]), Last(ev.trace))
  /\ traces[ev.id] = ev.trace \o traces[ev.trigger]

\* C6: scheduled(id, ROOT) stores exactly the first stackTraceLimit frames
\* of the capture.
C6_RootTrigger ==
  (JustInit /\ ev.trigger = ROOT)
  => /\ ~threw
     /\ MapHas(traces, ev.id)
     /\ traces[ev.id] = Take(ev.trace, stackTraceLimit)

\* C6 happens: a ROOT-triggered id was stored while another id of the same
\* scope, whose sequence ends with the capture's last frame, was stored, and
\* the capture was longer than the limit.
C6_RootAmongOthers ==
  /\ JustInit /\ ev.trigger = ROOT
  /\ Len(ev.trace) > stackTraceLimit
  /\ \E j \in (DOMAIN traces \cap executionScopeInits) \ {ev.id} :
       /\ Len(traces[j]) >= 1
       /\ equalCallSite(Last(traces[j]), Last(ev.trace))

\* C7: after destroyed(id) the store has no entry for id and compose(id) is
\* empty; an entry (re)appears only through a scheduled event for that id;
\* destroyed(id) for an id without entry changes nothing and does not fail.
C7_TeardownCleanup ==
  [][ /\ ev'.op = "destroy"
         => /\ ~threw'
            /\ ~MapHas(traces', ev'.id)
            /\ ComposeIn(traces', ev'.id) = <<>>
            /\ ~MapHas(traces, ev'.id) => UNCHANGED prog
      /\ \A id \in Ids :
           (~MapHas(traces, id) /\ MapHas(traces', id))
           => (ev'.op = "init" /\ ev'.id = id) ]_vars

\* C7 happens: an id that was scheduled and stored has been destroyed while
\* another id is still stored.
C7_TornDown ==
  /\ JustDestroyed
  /\ ev.id \in rootInit
  /\ ~MapHas(traces, ev.id)
  /\ DOMAIN traces # {}

\* C8: the ids with an entry in the store are exactly the ids scheduled and
\* not yet destroyed; an entry appears only through scheduled(id) and
\* disappears only through destroyed(id).
C8_StoreIsLiveSet ==
  [][ /\ DOMAIN traces' = live'
      /\ \A id \in Ids :
           /\ (~MapHas(traces, id) /\ MapHas(traces', id))
              => (ev'.op = "init" /\ ev'.id = id)
           /\ (MapHas(traces, id) /\ ~MapHas(traces', id))
              => (ev'.op = "destroy" /\ ev'.id = id) ]_vars

\* C9: recent-inits is exactly the set of ids scheduled since the last
\* dispatchEnter executed at depth 0; it is empty right after such a
\* dispatchEnter, and no other event removes an element.
C9_RecentInitsScope ==
  [][ /\ executionScopeInits' = sinceOutermost'
      /\ (ev'.op = "before" /\ executionScopeDepth = 0)
         => executionScopeInits' = {}
      /\ ~(ev'.op = "before" /\ executionScopeDepth = 0)
         => executionScopeInits \subseteq executionScopeInits' ]_vars

\* What destroyed(id) does on a step, whatever the scenario says of it:
\* only the entry of id leaves the store, compose(B) is the same for every
\* other B, and the depth and recent-inits stay.
C10_OnlyOwnEntry ==
  /\ traces' = MapDelete(traces, ev'.id)
  /\ \A B \in Ids \ {ev'.id} : ComposeIn(traces', B) = ComposeIn(traces, B)
  /\ UNCHANGED <<executionScopeDepth, executionScopeInits>>

\* C10 as stated: destroyed(id) removes only the entry of id, and in the
\* concrete scenario compose(1) = [] and compose(2) = [f2, f1] after
\* destroyed(1) (under a depth limit that cuts nothing here).
C10_DescendantsAsStated ==
  [][ ev'.op = "destroy"
      => /\ C10_OnlyOwnEntry
         /\ (scenario' = 4 /\ stackTraceLimit >= 3)
            => /\ ComposeIn(traces', 1) = <<>>
               /\ ComposeIn(traces', 2) = <<f2, f1>> ]_vars

\* C10 amended: destroyed(id) removes only the entry of id, and in the
\* concrete scenario compose(1) = [] and compose(2) is still the first
\* stackTraceLimit frames of [f2, f1, f1] after destroyed(1).
C10_DescendantsKept ==
  [][ ev'.op = "destroy"
      => /\ C10_OnlyOwnEntry
         /\ scenario' = 4
            => /\ ComposeIn(traces', 1) = <<>>
               /\ ComposeIn(traces', 2) = Take(<<f2, f1, f1>>, stackTraceLimit) ]_vars

\* C10 happens: in the scenario, 1 was destroyed and 2, built on the
\* sequence of 1, keeps its three frames.
C10_DestroyedTrigger ==
  /\ scenario = 4
  /\ ~MapHas(traces, 1)
  /\ compose(2) = <<f2, f1, f1>>

\* C11: the extend hook returns the gathered frames followed by exactly
\* store[currentId] when there is an entry and by nothing otherwise, and
\* leaves the store, recent-inits and the depth as they were.
C11_ComposePureRead ==
  [][ ev'.op = "extend"
      => /\ ev'.trace = IF ev'.id \in DOMAIN traces
                        THEN ev'.frames \o traces[ev'.id]
                        ELSE ev'.frames
         /\ UNCHANGED <<traces, executionScopeInits, executionScopeDepth>> ]_vars

\* C11 happens: an error with a synchronous frame was extended with a stored
\* sequence of two frames or more.
C11_Extended ==
  /\ ev.op = "extend"
  /\ MapHas(traces, ev.id)
  /\ Len(ev.frames) >= 1 /\ Len(traces[ev.id]) >= 2
  /\ ev.trace = ev.frames \o traces[ev.id]

\* The number of trailing frames of capture, one frame always left, that are
\* equal position by position from the end to the trailing frames of parent.
RECURSIVE C12_CommonTail(_, _)
C12_CommonTail(parent, capture) ==
  IF Len(parent) = 0 \/ Len(capture) <= 1
     \/ ~equalCallSite(Last(parent), Last(capture))
  THEN 0
  ELSE 1 + C12_CommonTail(Front(parent), Front(capture))

\* The frames of s occur in parent in the same order, each one equal to the
\* parent frame it is matched with: not necessarily next to one another.
C12_OccursIn(parent, s) ==
  \E pos \in [1..Len(s) -> 1..Len(parent)] :
     /\ \A k \in 1..Len(s) : equalCallSite(parent[pos[k]], s[k])
     /\ \A k \in 1..(Len(s) - 1) : pos[k] < pos[k + 1]

C12_TailOf(capture, r) == SubSeq(capture, Len(capture) - r + 1, Len(capture))

\* The length of the longest run of trailing frames of capture, one frame
\* always left, that occurs in order in parent.
C12_LongestInOrder(parent, capture) ==
  IF Len(capture) <= 1 THEN 0
  ELSE CHOOSE r \in 0..(Len(capture) - 1) :
         /\ C12_OccursIn(parent, C12_TailOf(capture, r))
         /\ \A q \in (r + 1)..(Len(capture) - 1) :
              ~C12_OccursIn(parent, C12_TailOf(capture, q))

\* What a completed scheduled event with a trigger of recent-inits stores when
\* the walk has removed the last r captured frames.
C12_Removes(r) ==
  (ev'.op = "init" /\ ~threw' /\ ev'.trigger \in executionScopeInits)
  => traces'[ev'.id] =
       Take(SubSeq(ev'.trace, 1, Len(ev'.trace) - r) \o traces[ev'.trigger],
            stackTraceLimit)

\* C12 as stated: the walk removes exactly the common tail of the capture and
\* store[triggerId] and stops at the first parent frame that differs.
C12_CommonTailOnly ==
  [][C12_Removes(C12_CommonTail(traces[ev'.trigger], ev'.trace))]_vars

\* C12 as the loop runs: the walk visits every parent frame from the last to
\* the first, skipping the ones that differ, so the frames removed are the
\* longest run of trailing captured frames (one always left) that occurs in
\* order among the frames of store[triggerId].
C12_DedupInOrder ==
  [][C12_Removes(C12_LongestInOrder(traces[ev'.trigger], ev'.trace))]_vars

\* C12 happens: the last captured frame was removed although it differs from
\* the last frame of the trigger's sequence.
C12_SkippedParentFrame ==
  /\ JustInit /\ ~threw
  /\ ev.trigger \in executionScopeInits /\ MapHas(traces, ev.trigger)
  /\ Len(ev.trace) >= 2 /\ Len(traces[ev.trigger]) >= 2
  /\ ~equalCallSite(Last(traces[ev.trigger]), Last(ev.trace))
  /\ traces[ev.id] = Take(Front(ev.trace) \o traces[ev.trigger], stackTraceLimit)
  /\ traces[ev.id] # Take(ev.trace \o traces[ev.trigger], stackTraceLimit)

\* C13: after a scheduled event whose capture is not empty, the stored
\* sequence of its id is not empty and starts with the first captured frame
\* (Error.stackTraceLimit is at least 1 in every state).
C13_FirstFrameKept ==
  (JustInit /\ Len(ev.trace) >= 1)
  => /\ MapHas(traces, ev.id)
     /\ Len(traces[ev.id]) >= 1
     /\ traces[ev.id][1] = ev.trace[1]

C14_Absent == {Null, Undefined}

C14_Known(callSite) ==
  /\ callSite.file \notin C14_Absent
  /\ callSite.line \notin C14_Absent
  /\ callSite.column \notin C14_Absent

\* C14: equalCallSite(a, b) is true exactly when the file, line and column of
\* a and of b are all known (neither null nor undefined) and pairwise
\* identical, so it is false when any of the six is absent, and
\* equalCallSite(b, a) gives the same result.
C14_EqualConservative ==
  ev.op = "equal"
  => LET a == ev.trace[1]
         b == ev.trace[2]
     IN /\ ev.result <=> /\ C14_Known(a) /\ C14_Known(b)
                         /\ a.file = b.file
                         /\ a.line = b.line
                         /\ a.column = b.column
        /\ ev.swapped = ev.result

\* C15: whatever dispatchExit events come, unmatched ones included, the depth
\* is never negative, and a dispatchEnter that finds no dispatch counted as
\* open (a depth of 0 or less) empties recent-inits.
C15_UnmatchedExitHarmless ==
  [][ /\ executionScopeDepth' >= 0
      /\ (ev'.op = "before" /\ executionScopeDepth <= 0)
         => executionScopeInits' = {} ]_vars

C16_NoDispatchStep == ev'.op \in {"init", "destroy", "extend"}

\* C16 as stated: every scheduled, destroyed and compose step leaves the depth
\* and recent-inits as they were.
C16_ScopeOnlyByDispatch ==
  [][ C16_NoDispatchStep
      => UNCHANGED <<executionScopeDepth, executionScopeInits>> ]_vars

\* C16 as coded: every scheduled, destroyed and compose step leaves the depth
\* as it was; destroyed and compose leave recent-inits as it was; a scheduled
\* event that completes adds its own id to recent-inits and nothing else, and
\* one that fails adds nothing; dispatchEnter adds one to the depth and
\* empties recent-inits when the depth was 0, dispatchExit takes one off the
\* depth and leaves recent-inits as it was.
C16_InitJoinsScope ==
  [][ /\ C16_NoDispatchStep => UNCHANGED executionScopeDepth
      /\ ev'.op \in {"destroy", "extend"} => UNCHANGED executionScopeInits
      /\ ev'.op = "init"
         => executionScopeInits' = IF threw' THEN executionScopeInits
                                   ELSE executionScopeInits \cup {ev'.id}
      /\ ev'.op = "before"
         => /\ executionScopeDepth' = executionScopeDepth + 1
            /\ executionScopeInits' = IF executionScopeDepth = 0 THEN {}
                                      ELSE executionScopeInits
      /\ ev'.op = "after"
         => /\ executionScopeDepth' = executionScopeDepth - 1
            /\ UNCHANGED executionScopeInits ]_vars

\* C16 happens: inside a dispatch, a scheduled event has put its id into a
\* recent-inits that holds an earlier id too.
C16_JoinedScope ==
  /\ JustInit /\ ~threw
  /\ executionScopeDepth >= 1
  /\ ev.id \in executionScopeInits
  /\ executionScopeInits # {ev.id}

\* C17, for the scheduled event that names the cancelled id as its trigger:
\* the trigger was scheduled and destroyed before the next id was scheduled,
\* so it was never a trigger in between, and the event has to store what it
\* stores in the run without the trigger's two events, where the trigger has
\* no sequence and is not in recent-inits: its own capture cut at the limit.
C17_CancelledTriggerForgotten ==
  [][ ( /\ ev'.op = "init"
        /\ ev'.trigger \in scheduled \ live
        /\ ev'.id = ev'.trigger + 1 )
      => /\ MapHas(traces', ev'.id)
         /\ traces'[ev'.id] = Take(ev'.trace, stackTraceLimit) ]_vars

\* C18: a scheduled event changes the store at the key of its id only, and
\* the sequence stored for an id, the one compose returns for it, stays the
\* same from step to step until the destroyed event of that id.
C18_StoredImmutable ==
  [][ /\ ev'.op = "init"
         => \A j \in Ids \ {ev'.id} :
              /\ MapHas(traces', j) <=> MapHas(traces, j)
              /\ ComposeIn(traces', j) = ComposeIn(traces, j)
      /\ \A j \in DOMAIN traces :
           ~(ev'.op = "destroy" /\ ev'.id = j)
           => MapHas(traces', j) /\ ComposeIn(traces', j) = ComposeIn(traces, j) ]_vars

\* C18 happens: the walk has removed a captured frame against the trigger's
\* sequence and that sequence, appended to the capture, is still whole.
C18_WalkedAndAppended ==
  /\ JustInit /\ ~threw
  /\ ev.trigger \in executionScopeInits /\ MapHas(traces, ev.trigger)
  /\ Len(ev.trace) >= 2 /\ Len(traces[ev.trigger]) >= 2
  /\ traces[ev.id] = Front(ev.trace) \o traces[ev.trigger]

\* C19: a scheduled event raises Error.stackTraceLimit by the skip count while
\* the call sites are gathered, puts it back to the value it had before the
\* event when they are returned, and leaves it there; the stored array is cut
\* at that value.
C19_LimitRelaxedInCapture ==
  [][ /\ ev'.op = "capture"
         => /\ stackTraceLimit' = stackTraceLimit + Skip
            /\ ev'.limit = stackTraceLimit
      /\ ev'.op = "captured"
         => /\ stackTraceLimit = ev.limit + Skip
            /\ stackTraceLimit' = ev.limit
            /\ ev'.limit = ev.limit
      /\ ev'.op = "init"
         => /\ stackTraceLimit' = ev.limit
            /\ ~threw' =>
                 traces'[ev'.id] =
                   Take(WithTrigger(Deduped(ev'.trace, ev'.trigger), ev'.trigger),
                        ev.limit) ]_vars

\* C19 happens: a scheduled event has gathered more call sites than the
\* limit allows and has stored exactly as many as the limit.
C19_CutAtUnrelaxedLimit ==
  /\ JustInit /\ ~threw
  /\ Len(ev.trace) > stackTraceLimit
  /\ Len(traces[ev.id]) = stackTraceLimit

====
